---- MODULE Spec2Model ----
(***************************************************************************)
(* The data pipeline of src/datasets/dashboard.py (lines 83-250): five     *)
(* tables are loaded, day offsets become dates, the transactions are       *)
(* left-joined with product, household and campaign data, per-row features *)
(* are derived and four rollups are computed.  The script is one straight  *)
(* line of statements; each statement (or block that can only fail before  *)
(* it changes anything) is one action, and a statement that reads a column *)
(* its table does not have raises KeyError and ends the run.               *)
(*                                                                         *)
(* Values.  Keys, days, quantities and amounts are integers.  A missing    *)
(* object value (pandas NaN/None in a string column) is NA.  A float64     *)
(* result is a record [k, n, d]: "fin" with the reduced fraction n/d,      *)
(* "inf" with the sign in n, or "nan"; rounding of float64 is not          *)
(* modelled.  A Timestamp is a whole number of days since 1970-01-01.      *)
(***************************************************************************)
EXTENDS Integers, Sequences, FiniteSets, TLC

(* ------------------------------ bounds --------------------------------- *)
\* household and product keys of the dimension tables range over 1..MaxKey
MaxKey == 2
\* a dimension table (product, hh_demographic, campaign_table) has at most MaxDim rows
MaxDim == 2
\* number of line items of the transaction table when baskets are varied
MaxTx == 3
\* SALES_VALUE ranges over -MaxAmt..MaxAmt, each discount component over -MaxDisc..MaxDisc
MaxAmt == 2
MaxDisc == 1
\* QUANTITY ranges over 0..MaxQty
MaxQty == 1
\* day offsets range over 1..MaxDay and a few calendar boundaries
MaxDay == 2

(* ------------------------------ values --------------------------------- *)
NA == "NaN"

Abs(x) == IF x < 0 THEN -x ELSE x

RECURSIVE GCD(_, _)
GCD(a, b) == IF b = 0 THEN a ELSE GCD(b, a % b)

NaN == [k |-> "nan", n |-> 0, d |-> 1]
PosInf == [k |-> "inf", n |-> 1, d |-> 1]
NegInf == [k |-> "inf", n |-> -1, d |-> 1]
Fin(a, b) ==
    LET g == GCD(Abs(a), Abs(b))
        s == IF b < 0 THEN -1 ELSE 1
    IN [k |-> "fin", n |-> (s * a) \div g, d |-> (s * b) \div g]
Zero == Fin(0, 1)
ToFloat(i) == Fin(i, 1)

\* a / b on two numeric columns (float64 true division, element-wise)
TrueDivide(a, b) ==
    IF b # 0 THEN Fin(a, b)
    ELSE IF a = 0 THEN NaN
    ELSE IF a > 0 THEN PosInf ELSE NegInf

\* Series.fillna(v) on one float value: only NaN is replaced
FillNaKeep(x, v) == x
FillNa(x, v) == IF x.k = "nan" THEN v ELSE x

\* Series.fillna(v) on one object value
FillNaObj(x, v) == IF x = NA THEN v ELSE x

\* Series.astype(int) on one float value holding a whole number
AsInt(x) == x.n \div x.d

(* ----------------------------- sequences ------------------------------- *)
SeqsUpTo(S, n) == UNION {[1..k -> S] : k \in 0..n}

Range(s) == {s[i] : i \in DOMAIN s}

RECURSIVE SumSeq(_)
SumSeq(s) == IF s = <<>> THEN 0 ELSE Head(s) + SumSeq(Tail(s))

Column(t, c) == [i \in DOMAIN t |-> t[i][c]]

RECURSIVE SortedSeq(_)
SortedSeq(S) ==
    IF S = {} THEN <<>>
    ELSE LET m == CHOOSE x \in S : \A y \in S : x <= y
         IN <<m>> \o SortedSeq(S \ {m})

RECURSIVE Flatten(_)
Flatten(ss) == IF ss = <<>> THEN <<>> ELSE Head(ss) \o Flatten(Tail(ss))

Restrict(r, cols) == [c \in cols |-> r[c]]

(* ----------------------------- calendar -------------------------------- *)
\* pd.to_datetime('YYYY-MM-DD'): the proleptic Gregorian day number, 1970-01-01 = 0
to_datetime(y, m, d) ==
    LET yy == IF m <= 2 THEN y - 1 ELSE y
        era == yy \div 400
        yoe == yy - era * 400
        mp == IF m > 2 THEN m - 3 ELSE m + 9
        doy == (153 * mp + 2) \div 5 + d - 1
        doe == yoe * 365 + yoe \div 4 - yoe \div 100 + doy
    IN era * 146097 + doe - 719468

\* the .dt accessor: the civil fields of a day number
dt(z) ==
    LET zz == z + 719468
        era == zz \div 146097
        doe == zz - era * 146097
        yoe == (doe - doe \div 1460 + doe \div 36524 - doe \div 146096) \div 365
        doy == doe - (365 * yoe + yoe \div 4 - yoe \div 100)
        mp == (5 * doy + 2) \div 153
        d == doy - (153 * mp + 2) \div 5 + 1
        m == IF mp < 10 THEN mp + 3 ELSE mp - 9
        y == yoe + era * 400 + (IF m <= 2 THEN 1 ELSE 0)
    IN [year |-> y, month |-> m, day |-> d,
        dayofweek |-> (z + 3) % 7,
        quarter |-> (m - 1) \div 3 + 1]

MonthNames == <<"January", "February", "March", "April", "May", "June", "July",
                "August", "September", "October", "November", "December">>
DayNames == <<"Monday", "Tuesday", "Wednesday", "Thursday", "Friday", "Saturday",
              "Sunday">>

\* pd.to_timedelta(x, unit='D'): x whole days
to_timedelta(x) == x

start_date == to_datetime(2023, 1, 1)

\* start_date + pd.to_timedelta(day - 1, unit='D')
NormalizeNoOffset(day) == start_date + to_timedelta(day)
Normalize(day) == start_date + to_timedelta(day - 1)

(* ------------------------- relational operators ------------------------ *)
\* left.merge(right, on=key, how='left'): every left row, in order, once per matching
\* right row (in right order), or once with the right columns missing when none matches
RECURSIVE MergeInner(_, _, _, _)
MergeInner(left, right, on, nullrow) ==
    IF left = <<>> THEN <<>>
    ELSE LET l == Head(left)
             m == SelectSeq(right, LAMBDA r : r[on] = l[on])
         IN [i \in 1..Len(m) |-> l @@ m[i]] \o MergeInner(Tail(left), right, on, nullrow)

RECURSIVE MergeLeft(_, _, _, _)
MergeLeft(left, right, on, nullrow) ==
    IF left = <<>> THEN <<>>
    ELSE LET l == Head(left)
             m == SelectSeq(right, LAMBDA r : r[on] = l[on])
         IN (IF m = <<>> THEN <<l @@ nullrow>> ELSE [i \in 1..Len(m) |-> l @@ m[i]])
            \o MergeLeft(Tail(left), right, on, nullrow)

\* df.rename(columns=map): a column named in map takes its new name
Rename(r, map) ==
    LET new(c) == IF c \in DOMAIN map THEN map[c] ELSE c
        old(c) == IF \E o \in DOMAIN r : new(o) = c
                  THEN CHOOSE o \in DOMAIN r : new(o) = c ELSE c
    IN [c \in {new(o) : o \in DOMAIN r} |-> r[old(c)]]

\* the rows of group k of t.groupby(key), in table order
GroupRows(t, key, k) == SelectSeq(t, LAMBDA r : r[key] = k)

\* GroupBy.first() on one object column of one group: the first value that is not
\* missing, NA when all are
RECURSIVE FirstValid(_)
FirstValid(s) ==
    IF s = <<>> THEN NA
    ELSE IF Head(s) # NA THEN Head(s) ELSE FirstValid(Tail(s))

\* the group keys of t.groupby(key) for an integer key, ascending
GroupKeys(t, key) == SortedSeq({t[i][key] : i \in DOMAIN t})

\* the group keys of t.groupby(key) for an object key: rows whose key is missing
\* belong to no group (dropna=True); the groups come in the order of the key values
GroupKeysObjKeepNA(t, key, order) ==
    SelectSeq(order \o <<NA>>, LAMBDA k : \E i \in DOMAIN t : t[i][key] = k)
GroupKeysObj(t, key, order) ==
    SelectSeq(order, LAMBDA k : k # NA /\ \E i \in DOMAIN t : t[i][key] = k)

\* the reductions of .agg
NUniqueCount(s) == Len(s)
NUnique(s) == Cardinality(Range(s))
Sum(s) == SumSeq(s)
Min(s) == CHOOSE x \in Range(s) : \A y \in Range(s) : x <= y
Max(s) == CHOOSE x \in Range(s) : \A y \in Range(s) : x >= y

(* ------------------------------- tables -------------------------------- *)
TxColumns == {"household_key", "BASKET_ID", "DAY", "PRODUCT_ID", "QUANTITY",
              "SALES_VALUE", "STORE_ID", "RETAIL_DISC", "COUPON_DISC",
              "COUPON_MATCH_DISC"}
ProductColumns == {"PRODUCT_ID", "DEPARTMENT", "BRAND", "COMMODITY_DESC"}
HHColumns == {"household_key", "classification_1", "classification_2",
              "classification_3", "classification_5"}
CampaignColumns == {"household_key", "CAMPAIGN", "DESCRIPTION"}
CampaignDescColumns == {"START_DAY", "END_DAY"}

AllColumns == [transaction_data |-> TxColumns, product |-> ProductColumns,
               hh_demographic |-> HHColumns, campaign_table |-> CampaignColumns,
               campaign_desc |-> CampaignDescColumns]

TxRow(h, b, p, day, q, v, cm, c, r) ==
    [household_key |-> h, BASKET_ID |-> b, DAY |-> day, PRODUCT_ID |-> p,
     QUANTITY |-> q, SALES_VALUE |-> v, STORE_ID |-> 1, RETAIL_DISC |-> r,
     COUPON_DISC |-> c, COUPON_MATCH_DISC |-> cm]
ProductRow(p, dep) ==
    [PRODUCT_ID |-> p, DEPARTMENT |-> dep, BRAND |-> "National",
     COMMODITY_DESC |-> "MILK"]
HHRow(h, g) ==
    [household_key |-> h, classification_1 |-> g, classification_2 |-> "X",
     classification_3 |-> "Level1", classification_5 |-> "Group2"]
CampaignRow(h, c, desc) == [household_key |-> h, CAMPAIGN |-> c, DESCRIPTION |-> desc]
CampaignDescRow(s, e) == [START_DAY |-> s, END_DAY |-> e]

Departments == <<"GROCERY", "PRODUCE">>

ProductNull == [DEPARTMENT |-> NA, BRAND |-> NA, COMMODITY_DESC |-> NA]
HHNull == [classification_1 |-> NA, classification_2 |-> NA, classification_3 |-> NA,
           classification_5 |-> NA]
CampaignNull == [CAMPAIGN |-> NA, DESCRIPTION |-> NA, IN_CAMPAIGN |-> NaN]

(* -------------------------------- state -------------------------------- *)
VARIABLES
    transaction_data,        \* the five loaded tables: sequences of rows
    product,
    hh_demographic,
    campaign_table,
    campaign_desc,
    columns,                 \* the columns each loaded file had
    df,                      \* the enriched fact table
    campaign_participation,
    customer_metrics,
    product_performance,
    dept_performance,
    campaign_metrics,
    pc,                      \* the statement to run next, "done" or "aborted"
    applied,                 \* the statements that have run to completion
    err                      \* the exception that ended the run, "none" so far

vars == <<transaction_data, product, hh_demographic, campaign_table, campaign_desc,
          columns, df, campaign_participation, customer_metrics, product_performance,
          dept_performance, campaign_metrics, pc, applied, err>>

inputs == <<product, hh_demographic, campaign_table, columns>>
rollups == <<customer_metrics, product_performance, dept_performance, campaign_metrics>>

\* the statements of the pipeline, in script order
Steps == <<"DATE", "START_DATE", "END_DATE", "MergeProduct", "MergeDemographic",
           "RenameColumns", "CampaignParticipation", "MergeCampaign", "FillCampaign",
           "TemporalFeatures", "TotalDiscount", "DiscountRate", "NetRevenue",
           "UnitPrice", "CustomerMetrics", "ProductPerformance", "DeptPerformance",
           "CampaignMetrics">>

StepIndex(s) == CHOOSE i \in DOMAIN Steps : Steps[i] = s
After(s) == IF StepIndex(s) = Len(Steps) THEN "done" ELSE Steps[StepIndex(s) + 1]

\* the columns of the loaded tables a statement reads by name
NoReads == [transaction_data |-> {}, product |-> {}, hh_demographic |-> {},
            campaign_table |-> {}, campaign_desc |-> {}]
\* (a loader that checked every required column before the first statement)
ReadsAtLoad(s) == IF s = "DATE" THEN AllColumns ELSE NoReads
Reads(s) ==
    CASE s = "DATE" -> [NoReads EXCEPT !.transaction_data = {"DAY"}]
      [] s = "START_DATE" -> [NoReads EXCEPT !.campaign_desc = {"START_DAY"}]
      [] s = "END_DATE" -> [NoReads EXCEPT !.campaign_desc = {"END_DAY"}]
      [] s = "MergeProduct" ->
            [NoReads EXCEPT !.product = ProductColumns,
                            !.transaction_data = {"PRODUCT_ID"}]
      [] s = "MergeDemographic" ->
            [NoReads EXCEPT !.hh_demographic = HHColumns,
                            !.transaction_data = {"household_key"}]
      [] s = "CampaignParticipation" -> [NoReads EXCEPT !.campaign_table = CampaignColumns]
      [] s = "TotalDiscount" ->
            [NoReads EXCEPT !.transaction_data =
                                {"COUPON_MATCH_DISC", "COUPON_DISC", "RETAIL_DISC"}]
      [] s = "DiscountRate" -> [NoReads EXCEPT !.transaction_data = {"SALES_VALUE"}]
      [] s = "NetRevenue" -> [NoReads EXCEPT !.transaction_data = {"SALES_VALUE"}]
      [] s = "UnitPrice" -> [NoReads EXCEPT !.transaction_data = {"SALES_VALUE", "QUANTITY"}]
      [] s = "CustomerMetrics" ->
            [NoReads EXCEPT !.transaction_data =
                                {"BASKET_ID", "SALES_VALUE", "QUANTITY", "STORE_ID"}]
      [] OTHER -> NoReads

CanRun(s) == \A t \in DOMAIN columns : Reads(s)[t] \subseteq columns[t]

Finish(s) ==
    /\ pc' = After(s)
    /\ applied' = applied \cup {s}
    /\ err' = "none"

(* -------------------------------- inputs ------------------------------- *)
DefaultTx == [i \in 1..(MaxKey + 1) |-> TxRow(i, i, i, 1, 1, 10 * i, 0, 0, 0)]
DefaultProduct == [i \in 1..MaxKey |-> ProductRow(i, Departments[1])]
DefaultHH == [i \in 1..MaxKey |-> HHRow(i, "Group1")]
DefaultCampaign == <<CampaignRow(1, "8", "TypeA")>>
DefaultCampaignDesc == <<CampaignDescRow(1, 2)>>

DaySet == (1..MaxDay) \cup {32, 365, 366, 730}
Amounts == ((0 - MaxAmt)..MaxAmt) \cup {10}
Discounts == (0 - MaxDisc)..MaxDisc

ProductRows == {ProductRow(p, dep) : p \in 1..MaxKey, dep \in Range(Departments) \cup {NA}}
HHRows == {HHRow(h, "Group1") : h \in 1..MaxKey}
\* the households that take part in campaigns, and that shop when baskets are varied
Households == {1, 2}
CampaignRows == {CampaignRow(h, c, desc) :
                    h \in Households, c \in {"8", NA}, desc \in {"TypeA", "TypeB", NA}}
BasketRows == {TxRow(h, b, 1, 1, 1, v, 0, 0, 0) : h \in Households, b \in {1, 2}, v \in {20, 30}}

\* what the run starts from: the five tables as read, nothing derived yet
Loaded(tx, pr, hh, ct, cd, cols) ==
    /\ transaction_data = [i \in DOMAIN tx |-> Restrict(tx[i], cols.transaction_data)]
    /\ product = [i \in DOMAIN pr |-> Restrict(pr[i], cols.product)]
    /\ hh_demographic = [i \in DOMAIN hh |-> Restrict(hh[i], cols.hh_demographic)]
    /\ campaign_table = [i \in DOMAIN ct |-> Restrict(ct[i], cols.campaign_table)]
    /\ campaign_desc = [i \in DOMAIN cd |-> Restrict(cd[i], cols.campaign_desc)]
    /\ columns = cols
    /\ df = <<>>
    /\ campaign_participation = <<>>
    /\ customer_metrics = <<>>
    /\ product_performance = <<>>
    /\ dept_performance = <<>>
    /\ campaign_metrics = <<>>
    /\ pc = Steps[1]
    /\ applied = {}
    /\ err = "none"

\* product tables of every shape, also with repeated or dangling keys
InitProducts ==
    \E pr \in SeqsUpTo(ProductRows, MaxDim) :
        Loaded(DefaultTx, pr, DefaultHH, DefaultCampaign, DefaultCampaignDesc, AllColumns)

InitHouseholds ==
    \E hh \in SeqsUpTo(HHRows, MaxDim) :
        Loaded(DefaultTx, DefaultProduct, hh, DefaultCampaign, DefaultCampaignDesc,
               AllColumns)

InitCampaigns ==
    \E ct \in SeqsUpTo(CampaignRows, MaxDim) :
        Loaded(DefaultTx, DefaultProduct, DefaultHH, ct, DefaultCampaignDesc, AllColumns)

\* one line item with every combination of quantity, sales value and discounts
InitAmounts ==
    \E q \in 0..MaxQty, v \in Amounts, cm \in Discounts, c \in Discounts, r \in Discounts :
        Loaded(<<TxRow(1, 1, 1, 1, q, v, cm, c, r)>>, DefaultProduct, DefaultHH,
               DefaultCampaign, DefaultCampaignDesc, AllColumns)

InitDays ==
    \E day \in DaySet, s \in DaySet, e \in DaySet :
        Loaded(<<TxRow(1, 1, 1, day, 1, 10, 0, 0, 0)>>, DefaultProduct, DefaultHH,
               DefaultCampaign, <<CampaignDescRow(s, e)>>, AllColumns)

\* MaxTx line items spread over households and baskets
InitBaskets ==
    \E tx \in [1..MaxTx -> BasketRows] :
        Loaded(tx, DefaultProduct, DefaultHH, DefaultCampaign, DefaultCampaignDesc,
               AllColumns)

\* one of the files lacks one of its columns
InitColumns ==
    \E t \in DOMAIN AllColumns :
        \E c \in AllColumns[t] :
            Loaded(DefaultTx, DefaultProduct, DefaultHH, DefaultCampaign,
                   DefaultCampaignDesc, [AllColumns EXCEPT ![t] = @ \ {c}])

Init ==
    \/ InitProducts
    \/ InitHouseholds
    \/ InitCampaigns
    \/ InitAmounts
    \/ InitDays
    \/ InitBaskets
    \/ InitColumns

(* ------------------------------- the steps ----------------------------- *)
\* table[name] = value, row by row: the new columns replace columns of the same name
Assign(row, new) == new @@ row

\* lines 99-102
DATE ==
    /\ pc = "DATE"
    /\ CanRun("DATE")
    /\ transaction_data' =
          [i \in DOMAIN transaction_data |->
              Assign(transaction_data[i], [DATE |-> Normalize(transaction_data[i].DAY)])]
    /\ Finish("DATE")
    /\ UNCHANGED <<inputs, campaign_desc, df, campaign_participation, rollups>>

\* lines 105-108
START_DATE ==
    /\ pc = "START_DATE"
    /\ CanRun("START_DATE")
    /\ campaign_desc' =
          [i \in DOMAIN campaign_desc |->
              Assign(campaign_desc[i], [START_DATE |-> Normalize(campaign_desc[i].START_DAY)])]
    /\ Finish("START_DATE")
    /\ UNCHANGED <<inputs, transaction_data, df, campaign_participation, rollups>>

\* lines 111-114
END_DATE ==
    /\ pc = "END_DATE"
    /\ CanRun("END_DATE")
    /\ campaign_desc' =
          [i \in DOMAIN campaign_desc |->
              Assign(campaign_desc[i], [END_DATE |-> Normalize(campaign_desc[i].END_DAY)])]
    /\ Finish("END_DATE")
    /\ UNCHANGED <<inputs, transaction_data, df, campaign_participation, rollups>>

\* lines 117-122
MergeProduct ==
    /\ pc = "MergeProduct"
    /\ CanRun("MergeProduct")
    /\ df' = MergeLeft(transaction_data,
                       [i \in DOMAIN product |-> Restrict(product[i], ProductColumns)],
                       "PRODUCT_ID", ProductNull)
    /\ Finish("MergeProduct")
    /\ UNCHANGED <<inputs, transaction_data, campaign_desc, campaign_participation, rollups>>

\* lines 125-130
MergeDemographic ==
    /\ pc = "MergeDemographic"
    /\ CanRun("MergeDemographic")
    /\ df' = MergeLeft(df,
                       [i \in DOMAIN hh_demographic |->
                           Restrict(hh_demographic[i], HHColumns)],
                       "household_key", HHNull)
    /\ Finish("MergeDemographic")
    /\ UNCHANGED <<inputs, transaction_data, campaign_desc, campaign_participation, rollups>>

\* lines 133-138
RenameColumns ==
    /\ pc = "RenameColumns"
    /\ df' = [i \in DOMAIN df |->
                 Rename(df[i], [classification_1 |-> "DEMOGRAPHIC_GROUP",
                                classification_2 |-> "DEMOGRAPHIC_TYPE",
                                classification_3 |-> "DEMOGRAPHIC_LEVEL",
                                classification_5 |-> "SHOPPING_SEGMENT"])]
    /\ Finish("RenameColumns")
    /\ UNCHANGED <<inputs, transaction_data, campaign_desc, campaign_participation, rollups>>

\* line 145: groupby('household_key').first().reset_index() on the participation table:
\* one row per household, ascending, each column reduced on its own
FirstComplete(t) ==
    LET keys == GroupKeys(t, "household_key")
        g(k) == GroupRows(t, "household_key", k)
        full == SelectSeq(keys, LAMBDA k : g(k)[1].CAMPAIGN # NA /\ g(k)[1].DESCRIPTION # NA)
    IN [j \in DOMAIN full |-> g(full[j])[1]]
First(t) ==
    LET keys == GroupKeys(t, "household_key")
        g(k) == GroupRows(t, "household_key", k)
    IN [j \in DOMAIN keys |->
           [household_key |-> keys[j],
            CAMPAIGN |-> FirstValid(Column(g(keys[j]), "CAMPAIGN")),
            DESCRIPTION |-> FirstValid(Column(g(keys[j]), "DESCRIPTION")),
            IN_CAMPAIGN |-> Head(Column(g(keys[j]), "IN_CAMPAIGN"))]]

\* lines 141-145
CampaignParticipation ==
    /\ pc = "CampaignParticipation"
    /\ CanRun("CampaignParticipation")
    /\ campaign_participation' =
          First([i \in DOMAIN campaign_table |->
                    Assign(Restrict(campaign_table[i], CampaignColumns),
                           [IN_CAMPAIGN |-> 1])])
    /\ Finish("CampaignParticipation")
    /\ UNCHANGED <<inputs, transaction_data, campaign_desc, df, rollups>>

\* a left merge leaves some left row without a match in right: only then do the
\* integer columns taken from right hold NaN and become float64
Unmatched(left, right, on) ==
    \E i \in DOMAIN left : \A j \in DOMAIN right : right[j][on] # left[i][on]

\* lines 147-151; the joined IN_CAMPAIGN stays the int64 1 when every row of df finds
\* its household in campaign_participation, and is the float column 1.0 / NaN otherwise
MergeCampaign ==
    /\ pc = "MergeCampaign"
    /\ df' = IF Unmatched(df, campaign_participation, "household_key")
             THEN MergeLeft(df,
                            [i \in DOMAIN campaign_participation |->
                                [campaign_participation[i] EXCEPT !.IN_CAMPAIGN = ToFloat(@)]],
                            "household_key", CampaignNull)
             ELSE MergeLeft(df, campaign_participation, "household_key", CampaignNull)
    /\ Finish("MergeCampaign")
    /\ UNCHANGED <<inputs, transaction_data, campaign_desc, campaign_participation, rollups>>

\* lines 153-154; on an int64 IN_CAMPAIGN fillna(0) and astype(int) change nothing
FillCampaign ==
    /\ pc = "FillCampaign"
    /\ df' = [i \in DOMAIN df |->
                 Assign(df[i],
                        [IN_CAMPAIGN |->
                            IF Unmatched(df, campaign_participation, "household_key")
                            THEN AsInt(FillNa(df[i].IN_CAMPAIGN, Zero))
                            ELSE df[i].IN_CAMPAIGN,
                         CAMPAIGN_TYPE |-> FillNaObj(df[i].DESCRIPTION, "No Campaign")])]
    /\ Finish("FillCampaign")
    /\ UNCHANGED <<inputs, transaction_data, campaign_desc, campaign_participation, rollups>>

\* lines 157-163
TemporalFeatures ==
    /\ pc = "TemporalFeatures"
    /\ df' = [i \in DOMAIN df |->
                 LET t == dt(df[i].DATE)
                 IN Assign(df[i],
                           [MONTH |-> t.month,
                            MONTH_NAME |-> MonthNames[t.month],
                            DAY_OF_WEEK |-> t.dayofweek,
                            DAY_NAME |-> DayNames[t.dayofweek + 1],
                            QUARTER |-> t.quarter,
                            YEAR |-> t.year,
                            IS_WEEKEND |-> IF t.dayofweek \in {5, 6} THEN 1 ELSE 0])]
    /\ Finish("TemporalFeatures")
    /\ UNCHANGED <<inputs, transaction_data, campaign_desc, campaign_participation, rollups>>

\* lines 166-170
TotalDiscount ==
    /\ pc = "TotalDiscount"
    /\ CanRun("TotalDiscount")
    /\ df' = [i \in DOMAIN df |->
                 Assign(df[i],
                        [TOTAL_DISCOUNT |-> df[i].COUPON_MATCH_DISC + df[i].COUPON_DISC
                                            + df[i].RETAIL_DISC])]
    /\ Finish("TotalDiscount")
    /\ UNCHANGED <<inputs, transaction_data, campaign_desc, campaign_participation, rollups>>

\* lines 171-174
DiscountRate ==
    /\ pc = "DiscountRate"
    /\ CanRun("DiscountRate")
    /\ df' = [i \in DOMAIN df |->
                 Assign(df[i],
                        [DISCOUNT_RATE |->
                            FillNa(TrueDivide(df[i].TOTAL_DISCOUNT,
                                              df[i].SALES_VALUE + df[i].TOTAL_DISCOUNT),
                                   Zero)])]
    /\ Finish("DiscountRate")
    /\ UNCHANGED <<inputs, transaction_data, campaign_desc, campaign_participation, rollups>>

\* line 177
NetRevenue ==
    /\ pc = "NetRevenue"
    /\ CanRun("NetRevenue")
    /\ df' = [i \in DOMAIN df |-> Assign(df[i], [NET_REVENUE |-> df[i].SALES_VALUE])]
    /\ Finish("NetRevenue")
    /\ UNCHANGED <<inputs, transaction_data, campaign_desc, campaign_participation, rollups>>

\* lines 178-179
UnitPrice ==
    /\ pc = "UnitPrice"
    /\ CanRun("UnitPrice")
    /\ df' = [i \in DOMAIN df |->
                 Assign(df[i],
                        [UNIT_PRICE |-> TrueDivide(df[i].SALES_VALUE, df[i].QUANTITY),
                         HAS_DISCOUNT |-> IF df[i].TOTAL_DISCOUNT > 0 THEN 1 ELSE 0])]
    /\ Finish("UnitPrice")
    /\ UNCHANGED <<inputs, transaction_data, campaign_desc, campaign_participation, rollups>>

(* ------------------------------ the rollups ---------------------------- *)
\* lines 183-211: one row per household, ascending; the ratios use the reduced columns
CustomerRow(k, g) ==
    LET trips == NUnique(Column(g, "BASKET_ID"))
        spent == Sum(Column(g, "SALES_VALUE"))
        items == Sum(Column(g, "QUANTITY"))
        first == Min(Column(g, "DATE"))
        last == Max(Column(g, "DATE"))
        discounts == Sum(Column(g, "TOTAL_DISCOUNT"))
    IN [household_key |-> k,
        NUM_TRIPS |-> trips,
        TOTAL_SPENT |-> spent,
        TOTAL_ITEMS |-> items,
        FIRST_PURCHASE |-> first,
        LAST_PURCHASE |-> last,
        TOTAL_DISCOUNTS |-> discounts,
        NUM_STORES |-> NUnique(Column(g, "STORE_ID")),
        DAYS_ACTIVE |-> (last - first) + 1,
        AVG_BASKET_VALUE |-> TrueDivide(spent, trips),
        ITEMS_PER_TRIP |-> TrueDivide(items, trips),
        DISCOUNT_RATE |-> TrueDivide(discounts, spent + discounts)]

CustomerMetrics ==
    /\ pc = "CustomerMetrics"
    /\ CanRun("CustomerMetrics")
    /\ customer_metrics' =
          LET keys == GroupKeys(df, "household_key")
          IN [j \in DOMAIN keys |-> CustomerRow(keys[j], GroupRows(df, "household_key", keys[j]))]
    /\ Finish("CustomerMetrics")
    /\ UNCHANGED <<inputs, transaction_data, campaign_desc, df, campaign_participation,
                   product_performance, dept_performance, campaign_metrics>>

\* lines 213-222
ProductRollupRow(k, g) ==
    [PRODUCT_ID |-> k,
     TOTAL_QUANTITY |-> Sum(Column(g, "QUANTITY")),
     TOTAL_SALES |-> Sum(Column(g, "SALES_VALUE")),
     NUM_BASKETS |-> NUnique(Column(g, "BASKET_ID")),
     NUM_CUSTOMERS |-> NUnique(Column(g, "household_key")),
     TOTAL_DISCOUNTS |-> Sum(Column(g, "TOTAL_DISCOUNT"))]

\* lines 213-234
ProductPerformance ==
    /\ pc = "ProductPerformance"
    /\ product_performance' =
          LET keys == GroupKeys(df, "PRODUCT_ID")
              rolled == [j \in DOMAIN keys |->
                            ProductRollupRow(keys[j], GroupRows(df, "PRODUCT_ID", keys[j]))]
              merged == MergeLeft(rolled,
                                  [i \in DOMAIN product |->
                                      Restrict(product[i], ProductColumns)],
                                  "PRODUCT_ID", ProductNull)
          IN [i \in DOMAIN merged |->
                 Assign(merged[i],
                        [AVG_PRICE |-> TrueDivide(merged[i].TOTAL_SALES,
                                                  merged[i].TOTAL_QUANTITY)])]
    /\ Finish("ProductPerformance")
    /\ UNCHANGED <<inputs, transaction_data, campaign_desc, df, campaign_participation,
                   customer_metrics, dept_performance, campaign_metrics>>

\* lines 236-244
DeptRow(k, g) ==
    [DEPARTMENT |-> k,
     TOTAL_REVENUE |-> Sum(Column(g, "SALES_VALUE")),
     TOTAL_QUANTITY |-> Sum(Column(g, "QUANTITY")),
     NUM_BASKETS |-> NUnique(Column(g, "BASKET_ID")),
     NUM_CUSTOMERS |-> NUnique(Column(g, "household_key"))]

DeptPerformance ==
    /\ pc = "DeptPerformance"
    /\ dept_performance' =
          LET keys == GroupKeysObj(df, "DEPARTMENT", Departments)
          IN [j \in DOMAIN keys |-> DeptRow(keys[j], GroupRows(df, "DEPARTMENT", keys[j]))]
    /\ Finish("DeptPerformance")
    /\ UNCHANGED <<inputs, transaction_data, campaign_desc, df, campaign_participation,
                   customer_metrics, product_performance, campaign_metrics>>

\* lines 246-250: one row per (household_key, IN_CAMPAIGN) pair that occurs
CampaignMetricsRow(h, f, g) ==
    [household_key |-> h,
     IN_CAMPAIGN |-> f,
     SALES_VALUE |-> Sum(Column(g, "SALES_VALUE")),
     BASKET_ID |-> NUnique(Column(g, "BASKET_ID")),
     QUANTITY |-> Sum(Column(g, "QUANTITY"))]

CampaignMetrics ==
    /\ pc = "CampaignMetrics"
    /\ campaign_metrics' =
          LET keys == GroupKeys(df, "household_key")
              of(h) == GroupRows(df, "household_key", h)
              flags(h) == GroupKeys(of(h), "IN_CAMPAIGN")
          IN Flatten([j \in DOMAIN keys |->
                         [m \in DOMAIN flags(keys[j]) |->
                             CampaignMetricsRow(keys[j], flags(keys[j])[m],
                                                GroupRows(of(keys[j]), "IN_CAMPAIGN",
                                                          flags(keys[j])[m]))]])
    /\ Finish("CampaignMetrics")
    /\ UNCHANGED <<inputs, transaction_data, campaign_desc, df, campaign_participation,
                   customer_metrics, product_performance, dept_performance>>

\* a statement that reads a column its table lacks raises KeyError; nothing it would
\* have assigned is assigned, and the script stops there
Abort ==
    /\ pc \in Range(Steps)
    /\ ~CanRun(pc)
    /\ pc' = "aborted"
    /\ err' = "KeyError"
    /\ UNCHANGED <<inputs, transaction_data, campaign_desc, df, campaign_participation,
                   rollups, applied>>

Next ==
    \/ DATE
    \/ START_DATE
    \/ END_DATE
    \/ MergeProduct
    \/ MergeDemographic
    \/ RenameColumns
    \/ CampaignParticipation
    \/ MergeCampaign
    \/ FillCampaign
    \/ TemporalFeatures
    \/ TotalDiscount
    \/ DiscountRate
    \/ NetRevenue
    \/ UnitPrice
    \/ CustomerMetrics
    \/ ProductPerformance
    \/ DeptPerformance
    \/ CampaignMetrics
    \/ Abort

Spec == Init /\ [][Next]_vars

(* ------------------------------- properties ---------------------------- *)
Done(s) == s \in applied

UniqueKey(t, key) == \A i, j \in DOMAIN t : t[i][key] = t[j][key] => i = j

\* both dimension tables have their key column, with no key repeated
UniqueDimensionKeys ==
    /\ "PRODUCT_ID" \in columns.product
    /\ "household_key" \in columns.hh_demographic
    /\ UniqueKey(product, "PRODUCT_ID")
    /\ UniqueKey(hh_demographic, "household_key")

\* C1: when PRODUCT_ID is unique in product and household_key is unique in
\* hh_demographic, the enriched table has exactly the rows of the transaction table,
\* in order: after each of the three left-joins no transaction row is dropped or
\* duplicated, matched or not.
C1_RowCountPreserved ==
    (Done("MergeProduct") /\ UniqueDimensionKeys)
    => /\ Len(df) = Len(transaction_data)
       /\ \A i \in DOMAIN df :
             Restrict(df[i], DOMAIN transaction_data[i]) = transaction_data[i]

C1_Witness ==
    /\ Done("MergeCampaign")
    /\ UniqueDimensionKeys
    /\ Len(df) = Len(transaction_data)
    /\ \E i \in DOMAIN df : df[i].BRAND = NA /\ df[i].DEMOGRAPHIC_GROUP = NA
    /\ \E i \in DOMAIN df : df[i].BRAND # NA /\ df[i].CAMPAIGN # NA

\* C2: in every enriched row IN_CAMPAIGN is 0 or 1, and it is 1 exactly when the row's
\* household_key occurs in some row of campaign_table.
C2_InCampaignFlag ==
    Done("FillCampaign")
    => \A i \in DOMAIN df :
          /\ df[i].IN_CAMPAIGN \in {0, 1}
          /\ df[i].IN_CAMPAIGN = 1
             <=> \E j \in DOMAIN campaign_table :
                    campaign_table[j].household_key = df[i].household_key

C2_Witness ==
    /\ Done("FillCampaign")
    /\ \E i \in DOMAIN df : df[i].IN_CAMPAIGN = 0
    /\ \E i \in DOMAIN df : df[i].IN_CAMPAIGN = 1 /\ df[i].CAMPAIGN = NA
                            /\ df[i].CAMPAIGN_TYPE = "No Campaign"

NotNullDept(r) == r.DEPARTMENT # NA

\* C3 as stated: the TOTAL_REVENUE of dept_performance adds up to the SALES_VALUE of
\* the whole enriched table, also when some row has no DEPARTMENT.
C3_TotalsConserved ==
    Done("DeptPerformance")
    => SumSeq(Column(dept_performance, "TOTAL_REVENUE")) = SumSeq(Column(df, "SALES_VALUE"))

\* C3 amended: the TOTAL_REVENUE of dept_performance adds up to the SALES_VALUE of the
\* enriched rows whose DEPARTMENT is not missing; each such department has one row.
C3_TotalsOverKnownDepartments ==
    Done("DeptPerformance")
    => /\ SumSeq(Column(dept_performance, "TOTAL_REVENUE"))
          = SumSeq(Column(SelectSeq(df, NotNullDept), "SALES_VALUE"))
       /\ UniqueKey(dept_performance, "DEPARTMENT")
       /\ \A j \in DOMAIN dept_performance : dept_performance[j].DEPARTMENT # NA

C3_Witness ==
    /\ Done("DeptPerformance")
    /\ \E i \in DOMAIN df : df[i].DEPARTMENT = NA /\ df[i].BRAND # NA /\ df[i].SALES_VALUE # 0
    /\ \E i \in DOMAIN df : df[i].DEPARTMENT = NA /\ df[i].BRAND = NA
    /\ Len(dept_performance) > 0

\* C4 as stated: a row whose SALES_VALUE + TOTAL_DISCOUNT is zero has DISCOUNT_RATE 0,
\* whatever the signs of the two.
C4_ZeroDenominatorGivesZero ==
    Done("DiscountRate")
    => \A i \in DOMAIN df :
          df[i].SALES_VALUE + df[i].TOTAL_DISCOUNT = 0 => df[i].DISCOUNT_RATE = Zero

\* C5: a row with SALES_VALUE >= 0 and TOTAL_DISCOUNT >= 0 has a DISCOUNT_RATE within
\* [0, 1], and exactly 0 when SALES_VALUE + TOTAL_DISCOUNT is zero.
C5_RateInUnitInterval ==
    Done("DiscountRate")
    => \A i \in DOMAIN df :
          (df[i].SALES_VALUE >= 0 /\ df[i].TOTAL_DISCOUNT >= 0)
          => /\ df[i].TOTAL_DISCOUNT
                = df[i].COUPON_MATCH_DISC + df[i].COUPON_DISC + df[i].RETAIL_DISC
             /\ df[i].DISCOUNT_RATE.k = "fin"
             /\ 0 <= df[i].DISCOUNT_RATE.n
             /\ df[i].DISCOUNT_RATE.n <= df[i].DISCOUNT_RATE.d
             /\ df[i].DISCOUNT_RATE.n * (df[i].SALES_VALUE + df[i].TOTAL_DISCOUNT)
                = df[i].TOTAL_DISCOUNT * df[i].DISCOUNT_RATE.d
             /\ (df[i].SALES_VALUE + df[i].TOTAL_DISCOUNT = 0 => df[i].DISCOUNT_RATE = Zero)

C5_Witness ==
    /\ Done("DiscountRate")
    /\ \E i \in DOMAIN df :
          /\ df[i].SALES_VALUE = 0
          /\ df[i].TOTAL_DISCOUNT = 0
          /\ df[i].COUPON_DISC > 0
          /\ df[i].DISCOUNT_RATE = Zero

\* C6: a row whose QUANTITY is 0 has a missing (NaN) UNIT_PRICE, also when its
\* SALES_VALUE is not zero.
C6_ZeroQuantityGivesNaN ==
    Done("UnitPrice")
    => \A i \in DOMAIN df : df[i].QUANTITY = 0 => df[i].UNIT_PRICE = NaN

\* the SALES_VALUE of the rows of df at the indices I, added up
RECURSIVE SalesAt(_)
SalesAt(I) ==
    IF I = {} THEN 0
    ELSE LET i == CHOOSE x \in I : TRUE IN df[i].SALES_VALUE + SalesAt(I \ {i})

RowsOf(h) == {i \in DOMAIN df : df[i].household_key = h}
BasketsOf(h) == {df[i].BASKET_ID : i \in RowsOf(h)}
BasketTotal(h, b) == SalesAt({i \in RowsOf(h) : df[i].BASKET_ID = b})

\* the household's line items make two baskets, one totalling 50 and one 30
TwoBaskets50And30(h) ==
    /\ Cardinality(BasketsOf(h)) = 2
    /\ {BasketTotal(h, b) : b \in BasketsOf(h)} = {50, 30}

\* C7: every household of the enriched table has exactly one row of customer_metrics;
\* its NUM_TRIPS is the number of distinct baskets of the household, its TOTAL_SPENT the
\* sum of the household's SALES_VALUE, and AVG_BASKET_VALUE is TOTAL_SPENT / NUM_TRIPS
\* (two baskets totalling 50 and 30 give 2, 80 and 40).
C7_CustomerMetrics ==
    Done("CustomerMetrics")
    => \A h \in {df[i].household_key : i \in DOMAIN df} :
          LET J == {j \in DOMAIN customer_metrics : customer_metrics[j].household_key = h}
          IN /\ Cardinality(J) = 1
             /\ \A j \in J :
                   LET m == customer_metrics[j]
                   IN /\ m.NUM_TRIPS = Cardinality(BasketsOf(h))
                      /\ m.TOTAL_SPENT = SalesAt(RowsOf(h))
                      /\ m.AVG_BASKET_VALUE.k = "fin"
                      /\ m.AVG_BASKET_VALUE.n * m.NUM_TRIPS
                         = m.TOTAL_SPENT * m.AVG_BASKET_VALUE.d
                      /\ TwoBaskets50And30(h)
                         => /\ m.NUM_TRIPS = 2
                            /\ m.TOTAL_SPENT = 80
                            /\ m.AVG_BASKET_VALUE = Fin(40, 1)

C7_Witness ==
    /\ Done("CustomerMetrics")
    /\ \E h \in {df[i].household_key : i \in DOMAIN df} :
          /\ TwoBaskets50And30(h)
          /\ Cardinality(RowsOf(h)) = 3
          /\ \E j \in DOMAIN customer_metrics :
                /\ customer_metrics[j].household_key = h
                /\ customer_metrics[j].AVG_BASKET_VALUE = Fin(40, 1)

\* C8 as stated: the CAMPAIGN and DESCRIPTION joined onto a household's transactions
\* are both those of the household's first row of campaign_table, missing or not.
C8_FirstRowRetained ==
    Done("MergeCampaign")
    => \A i \in DOMAIN df :
          \A j \in DOMAIN campaign_table :
             (/\ campaign_table[j].household_key = df[i].household_key
              /\ \A k \in 1..(j - 1) :
                    campaign_table[k].household_key # df[i].household_key)
             => /\ df[i].CAMPAIGN = campaign_table[j].CAMPAIGN
                /\ df[i].DESCRIPTION = campaign_table[j].DESCRIPTION

\* the loaded columns that are missing, as <<table, column>> pairs
MissingColumns ==
    {tc \in UNION {{<<t, c>> : c \in AllColumns[t]} : t \in DOMAIN AllColumns} :
        tc[2] \notin columns[tc[1]]}

\* C9 as stated: a run on tables that lack a required column ends with an error before
\* any transformation has been applied: no derived column, no join result.
C9_AbortBeforeAnyStep ==
    err # "none"
    => /\ applied = {}
       /\ df = <<>>
       /\ \A i \in DOMAIN transaction_data : "DATE" \notin DOMAIN transaction_data[i]

\* the position in the script of the first statement that reads column c of table t
FirstReader(t, c) ==
    CASE t = "campaign_desc" /\ c = "START_DAY" -> 2
      [] t = "campaign_desc" /\ c = "END_DAY" -> 3
      [] t = "product" -> 4
      [] t = "hh_demographic" -> 5
      [] t = "campaign_table" -> 7
      [] t = "transaction_data" /\ c = "DAY" -> 1
      [] t = "transaction_data" /\ c = "PRODUCT_ID" -> 4
      [] t = "transaction_data" /\ c = "household_key" -> 5
      [] t = "transaction_data" /\ c \in {"COUPON_MATCH_DISC", "COUPON_DISC", "RETAIL_DISC"} -> 11
      [] t = "transaction_data" /\ c = "SALES_VALUE" -> 12
      [] t = "transaction_data" /\ c = "QUANTITY" -> 14
      [] t = "transaction_data" /\ c \in {"BASKET_ID", "STORE_ID"} -> 15

\* C9 amended: a run on tables that lack a required column never completes; it ends
\* with KeyError at the first statement that reads a missing column, when every
\* statement before that one has been applied and none after it.  A run on complete
\* tables raises nothing.
C9_AbortAtFirstReader ==
    IF MissingColumns = {}
    THEN err = "none" /\ pc # "aborted"
    ELSE LET first == CHOOSE n \in {FirstReader(tc[1], tc[2]) : tc \in MissingColumns} :
                         \A tc \in MissingColumns : n <= FirstReader(tc[1], tc[2])
             before == {Steps[n] : n \in 1..(first - 1)}
         IN /\ pc # "done"
            /\ applied \subseteq before
            /\ pc = "aborted" <=> err = "KeyError"
            /\ pc = "aborted" => applied = before
            /\ pc # "aborted" => pc = Steps[Cardinality(applied) + 1]

C9_Witness ==
    /\ pc = "aborted"
    /\ <<"campaign_table", "DESCRIPTION">> \in MissingColumns
    /\ Done("MergeDemographic")
    /\ Len(df) = Len(transaction_data)
    /\ \A i \in DOMAIN transaction_data : "DATE" \in DOMAIN transaction_data[i]

\* the calendar, walked a month at a time: the date n days after the date c
IsLeap(y) == (y % 4 = 0 /\ y % 100 # 0) \/ y % 400 = 0
DaysInMonth(y, m) ==
    IF m = 2 THEN (IF IsLeap(y) THEN 29 ELSE 28)
    ELSE IF m \in {4, 6, 9, 11} THEN 30 ELSE 31
FirstOfNextMonth(c) == IF c[2] < 12 THEN <<c[1], c[2] + 1, 1>> ELSE <<c[1] + 1, 1, 1>>
RECURSIVE PlusDays(_, _)
PlusDays(c, n) ==
    IF c[3] + n <= DaysInMonth(c[1], c[2]) THEN <<c[1], c[2], c[3] + n>>
    ELSE PlusDays(FirstOfNextMonth(c), n - (DaysInMonth(c[1], c[2]) - c[3] + 1))

Civil(z) == <<dt(z).year, dt(z).month, dt(z).day>>
Epoch == <<2023, 1, 1>>

\* C10: the date derived from a day offset d >= 1 (transaction DAY, campaign START_DAY
\* or END_DAY) is 2023-01-01 plus d - 1 days, so day 1 is 2023-01-01 itself; a
\* transaction with DAY 1, SALES_VALUE 10 and no discounts gets DATE 2023-01-01,
\* TOTAL_DISCOUNT 0, DISCOUNT_RATE 0 and NET_REVENUE 10.
C10_DateNormalization ==
    /\ Done("DATE")
       => \A i \in DOMAIN transaction_data :
             Civil(transaction_data[i].DATE) = PlusDays(Epoch, transaction_data[i].DAY - 1)
    /\ Done("START_DATE")
       => \A i \in DOMAIN campaign_desc :
             Civil(campaign_desc[i].START_DATE) = PlusDays(Epoch, campaign_desc[i].START_DAY - 1)
    /\ Done("END_DATE")
       => \A i \in DOMAIN campaign_desc :
             Civil(campaign_desc[i].END_DATE) = PlusDays(Epoch, campaign_desc[i].END_DAY - 1)
    /\ Done("NetRevenue")
       => \A i \in DOMAIN df :
             (/\ df[i].DAY = 1
              /\ df[i].SALES_VALUE = 10
              /\ df[i].COUPON_DISC = 0
              /\ df[i].COUPON_MATCH_DISC = 0
              /\ df[i].RETAIL_DISC = 0)
             => /\ Civil(df[i].DATE) = Epoch
                /\ df[i].TOTAL_DISCOUNT = 0
                /\ df[i].DISCOUNT_RATE = Zero
                /\ df[i].NET_REVENUE = 10

C10_Witness ==
    /\ Done("NetRevenue")
    /\ \E i \in DOMAIN df :
          /\ df[i].DAY = 1
          /\ df[i].SALES_VALUE = 10
          /\ df[i].TOTAL_DISCOUNT = 0
          /\ Civil(df[i].DATE) = Epoch
          /\ df[i].NET_REVENUE = 10
    /\ \E i \in DOMAIN campaign_desc :
          /\ campaign_desc[i].START_DAY = 366
          /\ Civil(campaign_desc[i].START_DATE) = <<2024, 1, 1>>
          /\ campaign_desc[i].END_DAY = 730
          /\ Civil(campaign_desc[i].END_DATE) = <<2024, 12, 30>>

====
